---- MODULE Spec2Model ----
(***************************************************************************)
(* Notes API (src/server.js): an Express application holding notes in      *)
(* process memory, with a per-client sliding-window rate limiter in front  *)
(* of POST /notes.  Every request handler runs to completion on the        *)
(* single JavaScript thread, so each handler is one action.                *)
(*                                                                         *)
(* JavaScript strings are modelled as tuples of one-character strings,     *)
(* JavaScript values (a body field may be absent or not a string) as       *)
(* records [type, chars], and an ISO-8601 timestamp as the pair            *)
(* [secs, millis] that Date.prototype.toISOString prints.                  *)
(***************************************************************************)
EXTENDS Integers, Sequences, FiniteSets, TLC

\* ------------------------------------------------------------------------
\* Bounds of the model
\* ------------------------------------------------------------------------
MaxNotes == 2          \* notes stored
MaxLimiterNotes == 1   \* notes stored, limiter explored
MaxCreates == 2        \* create requests passing the rate limiter, all handlers explored
MaxLimiterCreates == 6 \* create requests passing the rate limiter, limiter explored
MaxLoadCreates == 5    \* create requests passing the rate limiter, one client under load
MaxClock == 60000      \* the latest time explored, in ms
MaxJitter == 1         \* milliseconds the clock may move while handlers run
MaxInflight == 2       \* requests in flight at a time
MaxConcurrentPassed == 6 \* requests passing the rate limiter, concurrent requests explored

\* ------------------------------------------------------------------------
\* Program constants
\* ------------------------------------------------------------------------
RATE_LIMIT_WINDOW == 60000
MAX_NOTES_PER_MINUTE == 5

\* The wall clock moves between requests in steps of one window.
Step == RATE_LIMIT_WINDOW

\* ------------------------------------------------------------------------
\* JavaScript values and strings
\* ------------------------------------------------------------------------
Undefined == [type |-> "undefined", chars |-> <<>>]
NonString == [type |-> "number", chars |-> <<>>]
Str(s) == [type |-> "string", chars |-> s]

Whitespace == {" ", "\t"}

RECURSIVE trimStart(_)
trimStart(s) ==
    IF s # <<>> /\ Head(s) \in Whitespace THEN trimStart(Tail(s)) ELSE s

RECURSIVE trimEnd(_)
trimEnd(s) ==
    IF s # <<>> /\ s[Len(s)] \in Whitespace
    THEN trimEnd(SubSeq(s, 1, Len(s) - 1))
    ELSE s

\* String.prototype.trim
trim(s) == trimEnd(trimStart(s))

lowerChar(c) ==
    CASE c = "A" -> "a"
      [] c = "B" -> "b"
      [] OTHER -> c

\* String.prototype.toLowerCase
toLowerCase(s) == [i \in 1..Len(s) |-> lowerChar(s[i])]

\* String.prototype.includes
includes(s, sub) ==
    \E k \in 0..(Len(s) - Len(sub)) : SubSeq(s, k + 1, k + Len(sub)) = sub

\* cleanString: '' for anything that is not a string, the trimmed string otherwise
cleanStringDropsTrim(str) ==
    IF str.type # "string" THEN <<>> ELSE str.chars

cleanString(str) ==
    IF str.type # "string" THEN <<>> ELSE trim(str.chars)

\* ------------------------------------------------------------------------
\* Dates
\* ------------------------------------------------------------------------
\* Date.prototype.toISOString: seconds and the three-digit millisecond field
toISOString(ms) == [secs |-> ms \div 1000, millis |-> ms % 1000]

\* new Date(isoString) as a number of milliseconds
DateParse(iso) == iso.secs * 1000 + iso.millis


\* ------------------------------------------------------------------------
\* Inputs explored
\* ------------------------------------------------------------------------
\* req.body.title / req.body.content: absent, not a string, blank, plain,
\* padded, and a two-character string
RawValues ==
    { Undefined, NonString, Str(<<" ">>), Str(<<"a">>),
      Str(<<" ", "a", "\t">>), Str(<<"a", "B">>) }

\* req.query.q: absent, empty, blank, and queries differing in case and padding
RawQueries ==
    { Undefined, Str(<<>>), Str(<<" ">>), Str(<<"A">>), Str(<<"a", " ">>),
      Str(<<" ", "b", " ">>), Str(<<"x">>) }

\* req.params.id
RawIds == { <<"1">>, <<" ", "2", "x">>, <<"x">> }

\* req.ip: an address, or "" when Express has none
Ips == { "10.0.0.1", "" }

\* ------------------------------------------------------------------------
\* State
\* ------------------------------------------------------------------------
VARIABLES
    notes,          \* let notes = []
    noteIdCounter,  \* let noteIdCounter = 1
    rateLimitMap,   \* const rateLimitMap = new Map()
    clock,          \* the wall clock Date.now() / new Date() read, in ms
    res,            \* the response to the request last handled
    passed,         \* per client, the Date.now() of every request the limiter let through
    limited,        \* the clients answered 429 so far
    inflight        \* the requests that have arrived, per connection

vars == <<notes, noteIdCounter, rateLimitMap, clock, res, passed, limited, inflight>>

ClientIds == { IF ip = "" THEN "default" ELSE ip : ip \in Ips }

\* A clock read made while the clock shows t: the clock may have moved on by
\* a millisecond, up to MaxJitter milliseconds past a multiple of Step.
ClockReads(t) ==
    {t} \cup (IF t % Step < MaxJitter /\ t + 1 <= MaxClock THEN {t + 1} ELSE {})

\* ------------------------------------------------------------------------
\* Requests and responses
\* ------------------------------------------------------------------------
NoNote ==
    [id |-> 0, title |-> <<>>, content |-> <<>>,
     created_at |-> toISOString(0), updated_at |-> toISOString(0)]

\* The JSON bodies of res.status(..).json(..); a key a body does not have is
\* "" / <<>> / NoNote / -1.
Response(status, error, message, details, note, count, list, fields, query) ==
    [status |-> status, error |-> error, message |-> message, details |-> details,
     note |-> note, count |-> count, notes |-> list, updated_fields |-> fields,
     query |-> query]

NoResponse == Response(0, "", "", <<>>, NoNote, -1, <<>>, <<>>, <<>>)

ErrorResponse(status, error, message, details) ==
    Response(status, error, message, details, NoNote, -1, <<>>, <<>>, <<>>)

\* ------------------------------------------------------------------------
\* Rate limiting middleware
\* ------------------------------------------------------------------------
\* req.ip || 'default'
clientId(ip) == IF ip = "" THEN "default" ELSE ip

\* Map.prototype.set
MapSet(map, key, value) ==
    [k \in DOMAIN map \cup {key} |-> IF k = key THEN value ELSE map[k]]

\* timestamps.filter(timestamp => now - timestamp < RATE_LIMIT_WINDOW)
validTimestampsKeepsAll(timestamps, now) == timestamps

validTimestamps(timestamps, now) ==
    SelectSeq(timestamps, LAMBDA timestamp : now - timestamp < RATE_LIMIT_WINDOW)

\* validTimestamps.length >= MAX_NOTES_PER_MINUTE
limitReachedOffByOne(valid) == Len(valid) > MAX_NOTES_PER_MINUTE

limitReached(valid) == Len(valid) >= MAX_NOTES_PER_MINUTE

\* rateLimiter: next |-> whether next() was called, map |-> rateLimitMap afterwards
rateLimiterRecordsRejected(map, client, now) ==
    LET known == IF client \in DOMAIN map THEN map ELSE MapSet(map, client, <<>>)
        valid == validTimestamps(known[client], now)
    IN  [next |-> ~limitReached(valid),
         map |-> MapSet(known, client, Append(valid, now))]

rateLimiterGlobalCap(map, client, now) ==
    LET known == IF client \in DOMAIN map THEN map ELSE MapSet(map, client, <<>>)
        valid == validTimestamps(known[client], now)
        recent == {p \in UNION {{k} \X DOMAIN known[k] : k \in DOMAIN known} :
                      now - known[p[1]][p[2]] < RATE_LIMIT_WINDOW}
    IN  IF Cardinality(recent) >= MAX_NOTES_PER_MINUTE
        THEN [next |-> FALSE, map |-> known]
        ELSE [next |-> TRUE, map |-> MapSet(known, client, Append(valid, now))]

rateLimiter(map, client, now) ==
    LET known == IF client \in DOMAIN map THEN map ELSE MapSet(map, client, <<>>)
        valid == validTimestamps(known[client], now)
    IN  IF limitReached(valid)
        THEN [next |-> FALSE, map |-> known]
        ELSE [next |-> TRUE, map |-> MapSet(known, client, Append(valid, now))]

RateLimitedResponse ==
    ErrorResponse(429, "Rate limit exceeded", "Maximum 5 notes per minute allowed", <<>>)

\* ------------------------------------------------------------------------
\* Validation
\* ------------------------------------------------------------------------
TitleRequired == "Title is required and cannot be empty or just spaces"
ContentRequired == "Content is required and cannot be empty or just spaces"
TitleEmpty == "Title cannot be empty or just spaces"
ContentEmpty == "Content cannot be empty or just spaces"

\* validateNoteInput
validateNoteInputFirstErrorOnly(title, content) ==
    LET cleanTitle == cleanString(title)
        cleanContent == cleanString(content)
        errors == IF cleanTitle = <<>> THEN <<TitleRequired>>
                  ELSE IF cleanContent = <<>> THEN <<ContentRequired>> ELSE <<>>
    IN  [isValid |-> Len(errors) = 0, errors |-> errors,
         cleanTitle |-> cleanTitle, cleanContent |-> cleanContent]

validateNoteInput(title, content) ==
    LET cleanTitle == cleanString(title)
        cleanContent == cleanString(content)
        errors == (IF cleanTitle = <<>> THEN <<TitleRequired>> ELSE <<>>)
                  \o (IF cleanContent = <<>> THEN <<ContentRequired>> ELSE <<>>)
    IN  [isValid |-> Len(errors) = 0, errors |-> errors,
         cleanTitle |-> cleanTitle, cleanContent |-> cleanContent]

\* ------------------------------------------------------------------------
\* POST /notes, after the rate limiter called next()
\* ------------------------------------------------------------------------
\* The note object literal: created_at and updated_at are two evaluations of
\* new Date(), createdMs and updatedMs.
newNote(id, validation, createdMs, updatedMs) ==
    [id |-> id, title |-> validation.cleanTitle, content |-> validation.cleanContent,
     created_at |-> toISOString(createdMs), updated_at |-> toISOString(updatedMs)]

\* The handler: the store afterwards and the response
postNotesReusesId(ns, counter, title, content, createdMs, updatedMs) ==
    LET validation == validateNoteInput(title, content)
        note == newNote(counter, validation, createdMs, updatedMs)
    IN  IF ~validation.isValid
        THEN [notes |-> ns, noteIdCounter |-> counter + 1, created |-> FALSE,
              res |-> ErrorResponse(400, "Validation failed", "", validation.errors)]
        ELSE [notes |-> Append(ns, note), noteIdCounter |-> counter, created |-> TRUE,
              res |-> Response(201, "", "Note created successfully", <<>>, note,
                               -1, <<>>, <<>>, <<>>)]

postNotes(ns, counter, title, content, createdMs, updatedMs) ==
    LET validation == validateNoteInput(title, content)
        note == newNote(counter, validation, createdMs, updatedMs)
    IN  IF ~validation.isValid
        THEN [notes |-> ns, noteIdCounter |-> counter, created |-> FALSE,
              res |-> ErrorResponse(400, "Validation failed", "", validation.errors)]
        ELSE [notes |-> Append(ns, note), noteIdCounter |-> counter + 1, created |-> TRUE,
              res |-> Response(201, "", "Note created successfully", <<>>, note,
                               -1, <<>>, <<>>, <<>>)]

\* ------------------------------------------------------------------------
\* GET /notes
\* ------------------------------------------------------------------------
\* Array.prototype.sort with (a, b) => new Date(b.updated_at) - new Date(a.updated_at):
\* a stable sort, most recently updated first
RECURSIVE insertNoteOldestFirst(_, _)
insertNoteOldestFirst(sorted, note) ==
    IF sorted = <<>> THEN <<note>>
    ELSE IF DateParse(note.updated_at) - DateParse(Head(sorted).updated_at) >= 0
         THEN <<Head(sorted)>> \o insertNoteOldestFirst(Tail(sorted), note)
         ELSE <<note>> \o sorted

RECURSIVE insertNote(_, _)
insertNote(sorted, note) ==
    IF sorted = <<>> THEN <<note>>
    ELSE IF DateParse(Head(sorted).updated_at) - DateParse(note.updated_at) >= 0
         THEN <<Head(sorted)>> \o insertNote(Tail(sorted), note)
         ELSE <<note>> \o sorted

RECURSIVE sortFrom(_, _)
sortFrom(sorted, rest) ==
    IF rest = <<>> THEN sorted
    ELSE sortFrom(insertNote(sorted, Head(rest)), Tail(rest))

sortByUpdatedUnsorted(ns) == ns

sortByUpdated(ns) == sortFrom(<<>>, ns)

getNotes(ns) ==
    LET sortedNotes == sortByUpdated(ns)
    IN  Response(200, "", "", <<>>, NoNote, Len(sortedNotes), sortedNotes, <<>>, <<>>)

\* ------------------------------------------------------------------------
\* PUT /notes/:id
\* ------------------------------------------------------------------------
DigitChars == <<"0", "1", "2", "3", "4", "5", "6", "7", "8", "9">>
IsDigit(c) == \E i \in DOMAIN DigitChars : DigitChars[i] = c
DigitValue(c) == (CHOOSE i \in DOMAIN DigitChars : DigitChars[i] = c) - 1

RECURSIVE parseDigits(_, _, _)
parseDigits(s, seen, value) ==
    IF s # <<>> /\ IsDigit(Head(s))
    THEN parseDigits(Tail(s), TRUE, value * 10 + DigitValue(Head(s)))
    ELSE [nan |-> ~seen, value |-> value]

\* parseInt: leading whitespace skipped, the longest run of digits read,
\* NaN (nan |-> TRUE) when there is none
parseInt(s) == parseDigits(trimStart(s), FALSE, 0)

\* notes.findIndex(note => note.id === noteId), 0 for JavaScript's -1
findIndexLastOnMiss(ns, noteId) ==
    IF \E i \in DOMAIN ns : ~noteId.nan /\ ns[i].id = noteId.value
    THEN CHOOSE i \in DOMAIN ns :
            /\ ~noteId.nan /\ ns[i].id = noteId.value
            /\ \A j \in 1..(i - 1) : ns[j].id # noteId.value
    ELSE Len(ns)

findIndex(ns, noteId) ==
    IF \E i \in DOMAIN ns : ~noteId.nan /\ ns[i].id = noteId.value
    THEN CHOOSE i \in DOMAIN ns :
            /\ ~noteId.nan /\ ns[i].id = noteId.value
            /\ \A j \in 1..(i - 1) : ns[j].id # noteId.value
    ELSE 0

NotFoundResponse ==
    ErrorResponse(404, "Note not found", "No note exists with id", <<>>)

\* The staged change of one field: nothing when the field is absent or equal
\* to the stored value after cleaning
stagedAlways(name, value, stored) ==
    IF value # Undefined THEN <<[key |-> name, value |-> cleanString(value)]>> ELSE <<>>

staged(name, value, stored) ==
    IF value # Undefined /\ cleanString(value) # stored
    THEN <<[key |-> name, value |-> cleanString(value)]>>
    ELSE <<>>

\* Object.keys(updatedFields)
keys(updatedFields) == [i \in DOMAIN updatedFields |-> updatedFields[i].key]

\* { ...existingNote, ...updatedFields, updated_at: new Date().toISOString() }
RECURSIVE spread(_, _)
spread(note, updatedFields) ==
    IF updatedFields = <<>> THEN note
    ELSE spread([note EXCEPT ![Head(updatedFields).key] = Head(updatedFields).value],
                Tail(updatedFields))

applyUpdateRestampsCreation(existingNote, updatedFields, nowMs) ==
    [spread(existingNote, updatedFields) EXCEPT !.created_at = toISOString(nowMs),
                                                !.updated_at = toISOString(nowMs)]

applyUpdateKeepsTimestamp(existingNote, updatedFields, nowMs) ==
    spread(existingNote, updatedFields)

applyUpdate(existingNote, updatedFields, nowMs) ==
    [spread(existingNote, updatedFields) EXCEPT !.updated_at = toISOString(nowMs)]

\* The handler: the store afterwards and the response
putNoteAppliesTitleFirst(ns, id, title, content, nowMs) ==
    LET noteId == parseInt(id)
        noteIndex == findIndex(ns, noteId)
        existingNote == ns[noteIndex]
        titleFields == staged("title", title, existingNote.title)
        updatedFields == titleFields \o staged("content", content, existingNote.content)
        hasChanges == updatedFields # <<>>
        updatedNote == applyUpdate(existingNote, updatedFields, nowMs)
    IN  IF noteIndex = 0
        THEN [notes |-> ns, changed |-> FALSE, res |-> NotFoundResponse]
        ELSE IF title # Undefined /\ cleanString(title) = <<>>
        THEN [notes |-> ns, changed |-> FALSE,
              res |-> ErrorResponse(400, "Validation failed", "", <<TitleEmpty>>)]
        ELSE IF content # Undefined /\ cleanString(content) = <<>>
        THEN [notes |-> [ns EXCEPT ![noteIndex] = spread(existingNote, titleFields)],
              changed |-> FALSE,
              res |-> ErrorResponse(400, "Validation failed", "", <<ContentEmpty>>)]
        ELSE IF ~hasChanges
        THEN [notes |-> ns, changed |-> FALSE,
              res |-> Response(200, "", "No changes detected - note remains unchanged",
                               <<>>, existingNote, -1, <<>>, <<>>, <<>>)]
        ELSE [notes |-> [ns EXCEPT ![noteIndex] = updatedNote], changed |-> TRUE,
              res |-> Response(200, "", "Note updated successfully", <<>>, updatedNote,
                               -1, <<>>, keys(updatedFields), <<>>)]

putNote(ns, id, title, content, nowMs) ==
    LET noteId == parseInt(id)
        noteIndex == findIndex(ns, noteId)
        existingNote == ns[noteIndex]
        updatedFields == staged("title", title, existingNote.title)
                         \o staged("content", content, existingNote.content)
        hasChanges == updatedFields # <<>>
        updatedNote == applyUpdate(existingNote, updatedFields, nowMs)
    IN  IF noteIndex = 0
        THEN [notes |-> ns, changed |-> FALSE, res |-> NotFoundResponse]
        ELSE IF title # Undefined /\ cleanString(title) = <<>>
        THEN [notes |-> ns, changed |-> FALSE,
              res |-> ErrorResponse(400, "Validation failed", "", <<TitleEmpty>>)]
        ELSE IF content # Undefined /\ cleanString(content) = <<>>
        THEN [notes |-> ns, changed |-> FALSE,
              res |-> ErrorResponse(400, "Validation failed", "", <<ContentEmpty>>)]
        ELSE IF ~hasChanges
        THEN [notes |-> ns, changed |-> FALSE,
              res |-> Response(200, "", "No changes detected - note remains unchanged",
                               <<>>, existingNote, -1, <<>>, <<>>, <<>>)]
        ELSE [notes |-> [ns EXCEPT ![noteIndex] = updatedNote], changed |-> TRUE,
              res |-> Response(200, "", "Note updated successfully", <<>>, updatedNote,
                               -1, <<>>, keys(updatedFields), <<>>)]

\* ------------------------------------------------------------------------
\* GET /notes/search
\* ------------------------------------------------------------------------
\* !query
falsy(value) ==
    \/ value.type = "undefined"
    \/ value.type = "string" /\ value.chars = <<>>

\* notes.filter(note => titleMatch || contentMatch)
matchingTitleOnly(ns, cleanQuery) ==
    SelectSeq(ns, LAMBDA note : includes(toLowerCase(note.title), cleanQuery))

matching(ns, cleanQuery) ==
    SelectSeq(ns, LAMBDA note :
        \/ includes(toLowerCase(note.title), cleanQuery)
        \/ includes(toLowerCase(note.content), cleanQuery))

searchNotes(ns, query) ==
    LET cleanQuery == toLowerCase(cleanString(query))
        sortedResults == sortByUpdated(matching(ns, cleanQuery))
    IN  IF falsy(query)
        THEN ErrorResponse(400, "Search query required",
                 "Please provide a search query using the \"q\" parameter", <<>>)
        ELSE IF cleanQuery = <<>>
        THEN ErrorResponse(400, "Invalid search query",
                 "Search query cannot be empty or just spaces", <<>>)
        ELSE Response(200, "", "", <<>>, NoNote, Len(sortedResults), sortedResults,
                      <<>>, cleanQuery)

\* ------------------------------------------------------------------------
\* The state machine
\* ------------------------------------------------------------------------
\* The connections requests arrive on
Slots == 1..MaxInflight

\* An HTTP request, as far as the handlers read it
Request(op, ip, id, title, content) ==
    [op |-> op, ip |-> ip, id |-> id, title |-> title, content |-> content]

NoRequest == Request("none", "", <<>>, Undefined, Undefined)

\* The module's variables: notes, noteIdCounter and rateLimitMap
Store(ns, counter, map) == [notes |-> ns, noteIdCounter |-> counter, rateLimitMap |-> map]

NoStore == Store(<<>>, 0, <<>>)

\* A connection without a request
Idle ==
    [phase |-> "idle", request |-> NoRequest, seen |-> NoStore, counted |-> 0,
     res |-> NoResponse]

Init ==
    /\ notes = <<>>
    /\ noteIdCounter = 1
    /\ rateLimitMap = <<>>
    /\ clock = 0
    /\ res = NoResponse
    /\ passed = [c \in ClientIds |-> <<>>]
    /\ limited = {}
    /\ inflight = [r \in Slots |-> Idle]

\* Time passes between two requests.
Tick ==
    /\ (clock \div Step + 1) * Step <= MaxClock
    /\ clock' = (clock \div Step + 1) * Step
    /\ UNCHANGED <<notes, noteIdCounter, rateLimitMap, res, passed, limited, inflight>>

\* The clock reads of a handler that builds a note: none when it does not
HandlerReads(t, builds) == IF builds THEN ClockReads(t) ELSE {t}

\* app.post('/notes', rateLimiter, handler): the middleware, then the handler
\* when the middleware called next()
postNotesRoute(map, ns, counter, ip, title, content, now, createdMs, updatedMs) ==
    LET limiter == rateLimiter(map, clientId(ip), now)
        out == postNotes(ns, counter, title, content, createdMs, updatedMs)
    IN  IF ~limiter.next
        THEN [rateLimitMap |-> limiter.map, next |-> FALSE, created |-> FALSE,
              notes |-> ns, noteIdCounter |-> counter, res |-> RateLimitedResponse]
        ELSE [rateLimitMap |-> limiter.map, next |-> TRUE, created |-> out.created,
              notes |-> out.notes, noteIdCounter |-> out.noteIdCounter, res |-> out.res]

\* Requests the limiter has let through so far
RECURSIVE TotalPassed(_)
TotalPassed(cs) ==
    IF cs = {} THEN 0
    ELSE LET c == CHOOSE x \in cs : TRUE
         IN  Len(passed[c]) + TotalPassed(cs \ {c})

\* POST /notes: the rate limiter reads the clock (now), then the handler reads
\* it twice more for a note it creates.  Explored while fewer than maxPassed
\* requests have passed the limiter and fewer than maxNotes notes are stored.
CreateNote(ip, title, content, maxPassed, maxNotes) ==
    \E now \in ClockReads(clock) :
      \E builds \in {postNotesRoute(rateLimitMap, notes, noteIdCounter, ip, title,
                                    content, now, now, now).created} :
        \E createdMs \in HandlerReads(now, builds) :
          \E updatedMs \in HandlerReads(createdMs, builds) :
            \E out \in {postNotesRoute(rateLimitMap, notes, noteIdCounter, ip, title,
                                       content, now, createdMs, updatedMs)} :
              /\ out.next => TotalPassed(ClientIds) < maxPassed
              /\ out.created => Len(notes) < maxNotes
              /\ rateLimitMap' = out.rateLimitMap
              /\ notes' = out.notes
              /\ noteIdCounter' = out.noteIdCounter
              /\ res' = out.res
              /\ clock' = updatedMs
              /\ passed' = IF out.next
                           THEN [passed EXCEPT ![clientId(ip)] = Append(@, now)]
                           ELSE passed
              /\ limited' = IF out.next THEN limited ELSE limited \cup {clientId(ip)}
              /\ UNCHANGED inflight

\* GET /notes
GetAllNotesRateLimited ==
    \E limiter \in {rateLimiter(rateLimitMap, clientId("10.0.0.1"), clock)} :
        /\ res' = IF limiter.next THEN getNotes(notes) ELSE RateLimitedResponse
        /\ rateLimitMap' = limiter.map
        /\ UNCHANGED <<notes, noteIdCounter, clock, passed, limited, inflight>>

GetAllNotes ==
    /\ res' = getNotes(notes)
    /\ UNCHANGED <<notes, noteIdCounter, rateLimitMap, clock, passed, limited, inflight>>

\* PUT /notes/:id: the handler reads the clock once, for a note it changes.
UpdateNote(id, title, content) ==
    \E changes \in {putNote(notes, id, title, content, clock).changed} :
      \E nowMs \in HandlerReads(clock, changes) :
        \E out \in {putNote(notes, id, title, content, nowMs)} :
          /\ res' = out.res
          /\ notes' = out.notes
          /\ clock' = nowMs
          /\ UNCHANGED <<noteIdCounter, rateLimitMap, passed, limited, inflight>>

\* GET /notes/search?q=
SearchNotes(q) ==
    /\ res' = searchNotes(notes, q)
    /\ UNCHANGED <<notes, noteIdCounter, rateLimitMap, clock, passed, limited, inflight>>

\* All handlers with every input, for one client
HandlerIp == "10.0.0.1"

Next ==
    \/ Tick
    \/ \E title \in RawValues, content \in RawValues :
          CreateNote(HandlerIp, title, content, MaxCreates, MaxNotes)
    \/ GetAllNotes
    \/ \E id \in RawIds, title \in RawValues, content \in RawValues :
          UpdateNote(id, title, content)
    \/ \E q \in RawQueries : SearchNotes(q)

Spec == Init /\ [][Next]_vars

\* The rate limiter on its own: creates with a valid and with a blank body
\* from every client, while time passes
LimiterBodies == { Str(<<"a">>), Str(<<" ">>) }

NextLimiter ==
    \/ Tick
    \/ \E ip \in Ips, body \in LimiterBodies :
          CreateNote(ip, body, body, MaxLimiterCreates, MaxLimiterNotes)

SpecLimiter == Init /\ [][NextLimiter]_vars

\* One client driving the limiter to its threshold, next to a few requests of
\* the other kinds
LoadIds == { <<"1">>, <<"x">> }
LoadTitles == { Str(<<" ">>), Str(<<"a", "B">>) }
LoadQueries == { Undefined, Str(<<"A">>) }

NextLoad ==
    \/ Tick
    \/ \E body \in LimiterBodies :
          CreateNote(HandlerIp, body, body, MaxLoadCreates, MaxNotes)
    \/ GetAllNotes
    \/ \E id \in LoadIds, title \in LoadTitles : UpdateNote(id, title, Undefined)
    \/ \E q \in LoadQueries : SearchNotes(q)

SpecLoad == Init /\ [][NextLoad]_vars

\* One client creating notes with every title and content, the empty string
\* included, up to the limiter's threshold and past the window
CreateValues == RawValues \cup { Str(<<>>) }

NextCreate ==
    \/ Tick
    \/ \E title \in CreateValues, content \in CreateValues :
          CreateNote(HandlerIp, title, content, MaxLoadCreates, MaxLimiterNotes)

SpecCreate == Init /\ [][NextCreate]_vars

\* ------------------------------------------------------------------------
\* Concurrently arriving requests
\* ------------------------------------------------------------------------
\* A request arrives on a connection while others are in flight: express.json()
\* reads its body from the socket, and the route's callbacks run later, in any
\* order with those of the other requests.  seen is the store as it is on
\* arrival, counted the number of the client's timestamps in the window then.
Arrive(r, request) ==
    /\ inflight[r].phase # "parsing"
    /\ inflight' = [inflight EXCEPT ![r] =
           [phase |-> "parsing", request |-> request,
            seen |-> Store(notes, noteIdCounter, rateLimitMap),
            counted |-> IF clientId(request.ip) \in DOMAIN rateLimitMap
                        THEN Len(validTimestamps(rateLimitMap[clientId(request.ip)], clock))
                        ELSE 0,
            res |-> NoResponse]]
    /\ UNCHANGED <<notes, noteIdCounter, rateLimitMap, clock, res, passed, limited>>

\* The store a route's callbacks work on: the module's variables as they are
\* when the callbacks run, which they do without yielding to the event loop
HandlerViewAtArrival(r) == inflight[r].seen

HandlerView(r) == Store(notes, noteIdCounter, rateLimitMap)

\* The connection once its request is answered
Answered(r, response) ==
    [inflight EXCEPT ![r] = [@ EXCEPT !.phase = "answered", !.seen = NoStore,
                                      !.res = response]]

\* app.post('/notes', rateLimiter, handler) for the request in flight on r.
\* The requests in flight are handled within one reading of the clock.
HandleCreate(r) ==
    /\ inflight[r].phase = "parsing"
    /\ inflight[r].request.op = "create"
    /\ \E view \in {HandlerView(r)}, q \in {inflight[r].request} :
         \E out \in {postNotesRoute(view.rateLimitMap, view.notes, view.noteIdCounter,
                                    q.ip, q.title, q.content, clock, clock, clock)} :
           /\ out.next => TotalPassed(ClientIds) < MaxConcurrentPassed
           /\ Len(out.notes) <= MaxNotes
           /\ rateLimitMap' = out.rateLimitMap
           /\ notes' = out.notes
           /\ noteIdCounter' = out.noteIdCounter
           /\ res' = out.res
           /\ passed' = IF out.next
                        THEN [passed EXCEPT ![clientId(q.ip)] = Append(@, clock)]
                        ELSE passed
           /\ limited' = IF out.next THEN limited ELSE limited \cup {clientId(q.ip)}
           /\ inflight' = Answered(r, out.res)
           /\ UNCHANGED clock

\* app.put('/notes/:id', handler) for the request in flight on r
HandleUpdate(r) ==
    /\ inflight[r].phase = "parsing"
    /\ inflight[r].request.op = "update"
    /\ \E view \in {HandlerView(r)}, q \in {inflight[r].request} :
         \E out \in {putNote(view.notes, q.id, q.title, q.content, clock)} :
           /\ res' = out.res
           /\ notes' = out.notes
           /\ inflight' = Answered(r, out.res)
           /\ UNCHANGED <<noteIdCounter, rateLimitMap, clock, passed, limited>>

\* The requests that arrive: creates of one client with a valid and with a
\* blank body, and updates of the first note's title alone and content alone
ConcurrentRequests ==
    { Request("create", HandlerIp, <<>>, body, body) : body \in LimiterBodies }
    \cup { Request("update", HandlerIp, <<"1">>, Str(<<"a", "B">>), Undefined),
           Request("update", HandlerIp, <<"1">>, Undefined, Str(<<"a", "B">>)) }

NextConcurrent ==
    \E r \in Slots :
        \/ \E request \in ConcurrentRequests : Arrive(r, request)
        \/ HandleCreate(r)
        \/ HandleUpdate(r)

SpecConcurrent == Init /\ [][NextConcurrent]_vars

\* ------------------------------------------------------------------------
\* Properties
\* ------------------------------------------------------------------------
\* The requests of client c that passed the limiter and are less than one
\* window old at time now
InWindow(c, now) ==
    {j \in DOMAIN passed[c] : now - passed[c][j] < RATE_LIMIT_WINDOW}

\* C1: under the non-decreasing clock, no trailing window (the requests less
\* than RATE_LIMIT_WINDOW ms older than a request that passed the limiter,
\* that request included) holds more than MAX_NOTES_PER_MINUTE requests of one
\* client that passed the limiter; and a create request of a client that
\* already has MAX_NOTES_PER_MINUTE of them in the window is answered 429 and
\* leaves the notes and the id counter alone.
C1_AtMostFivePerWindow ==
    /\ \A c \in ClientIds : \A i \in DOMAIN passed[c] :
          Cardinality({j \in 1..i : passed[c][i] - passed[c][j] < RATE_LIMIT_WINDOW})
              <= MAX_NOTES_PER_MINUTE
    /\ \A ip \in Ips, body \in LimiterBodies : \A now \in ClockReads(clock) :
          LET out == postNotesRoute(rateLimitMap, notes, noteIdCounter, ip, body, body,
                                    now, now, now)
          IN  Cardinality(InWindow(clientId(ip), now)) >= MAX_NOTES_PER_MINUTE
                  => /\ out.res = RateLimitedResponse
                     /\ ~out.next
                     /\ out.notes = notes
                     /\ out.noteIdCounter = noteIdCounter

\* C1 witness: a client with five requests through the limiter has just been
\* answered 429 while a note is stored.
C1_Witness ==
    /\ res = RateLimitedResponse
    /\ notes # <<>>
    /\ \E c \in ClientIds : Cardinality(InWindow(c, clock)) = MAX_NOTES_PER_MINUTE

\* A request answered 429 records nothing: the limiter's map and the log of
\* passed requests stay as they were.
C2_RejectedRecordsNothing ==
    res'.status = 429 => rateLimitMap' = rateLimitMap /\ passed' = passed

\* A create request made when every request of the client that passed the
\* limiter is at least one window old passes the limiter.

C2_AcceptedAfterWindow ==
    \A ip \in Ips, body \in LimiterBodies : \A now \in ClockReads(clock) :
        InWindow(clientId(ip), now) = {}
            => postNotesRoute(rateLimitMap, notes, noteIdCounter, ip, body, body,
                              now, now, now).next

\* C2: a request answered 429 records no timestamp, so, whatever was rejected
\* in between, a create request made when every request of the client that
\* passed the limiter is at least one window old passes the limiter.
C2_Recovers == [][C2_RejectedRecordsNothing]_vars /\ []C2_AcceptedAfterWindow

\* C2 witness: a client filled its window with five requests, was answered
\* 429, and its sixth request has just passed the limiter, once the window
\* had elapsed.
C2_Witness ==
    \E c \in limited :
        /\ Len(passed[c]) = MAX_NOTES_PER_MINUTE + 1
        /\ passed[c][MAX_NOTES_PER_MINUTE + 1] - passed[c][MAX_NOTES_PER_MINUTE]
               >= RATE_LIMIT_WINDOW
        /\ res.status # 429
        /\ clock = passed[c][MAX_NOTES_PER_MINUTE + 1]

\* The statuses of the rejections: validation failed or a bad query (400),
\* not found (404), rate limited (429)
Rejections == {400, 404, 429}

\* C3: a request that is rejected leaves the rate limiter's map as it was.
C3_RejectionKeepsLimiter ==
    [][res'.status \in Rejections => rateLimitMap' = rateLimitMap]_vars

\* C4: a request that is rejected, whatever the rejection, leaves the notes
\* and the id counter as they were.
C4_RejectionKeepsStore ==
    [][res'.status \in Rejections
           => notes' = notes /\ noteIdCounter' = noteIdCounter]_vars

\* C4 witness: with a note stored and a client already answered 429, a request
\* has just been rejected for its input.
C4_Witness ==
    /\ res.status \in {400, 404}
    /\ notes # <<>>
    /\ limited # {}

\* C5: the stored notes carry the ids 1..n in creation order, n the number of
\* notes, and the id counter is n + 1.
C5_IdsSequential ==
    /\ noteIdCounter = Len(notes) + 1
    /\ \A i \in DOMAIN notes : notes[i].id = i

\* C5 witness: the second note has just been created, with id 2, after
\* creates of the client were rejected for their input, and after an update
\* changed the first note.
C5_Witness ==
    /\ res.status = 201
    /\ res.note.id = 2
    /\ Len(notes) = 2
    /\ Len(passed[clientId(HandlerIp)]) > Len(notes)
    /\ notes[1].updated_at # notes[1].created_at
    /\ notes[1].title # notes[1].content

\* C6: every stored title and content is non-empty and is its own trimmed form.
C6_StoredFieldsClean ==
    \A i \in DOMAIN notes :
        /\ notes[i].title # <<>> /\ trim(notes[i].title) = notes[i].title
        /\ notes[i].content # <<>> /\ trim(notes[i].content) = notes[i].content

\* C6 witness: two notes are stored and an update has just replaced both the
\* title and the content of one.
C6_Witness ==
    /\ Len(notes) = 2
    /\ res.message = "Note updated successfully"
    /\ res.updated_fields = <<"title", "content">>

\* C7: the note a successful create answers with is the note stored under its
\* id, its fields are trimmed, and its created_at equals its updated_at.
C7_CreatedEqualsUpdated ==
    res.status = 201 =>
        /\ \E i \in DOMAIN notes : notes[i].id = res.note.id /\ notes[i] = res.note
        /\ trim(res.note.title) = res.note.title
        /\ trim(res.note.content) = res.note.content
        /\ res.note.created_at = res.note.updated_at

\* The stored notes a PUT /notes/:id with this id parameter addresses
Addressed(id) ==
    {i \in DOMAIN notes : ~parseInt(id).nan /\ notes[i].id = parseInt(id).value}

\* A body field is provided when the body has the key
Provided(value) == value # Undefined

\* A provided field differs from the stored value after trimming
Differs(value, stored) == Provided(value) /\ cleanString(value) # stored

NoChangesMessage == "No changes detected - note remains unchanged"
UpdatedMessage == "Note updated successfully"

\* C8: in every reachable state, an update of a stored note in which every
\* provided field equals the stored value after trimming (no field provided
\* included) is answered 200 "no changes" with the stored note, and leaves
\* the notes, so also the note's updated_at, exactly as they were.
C8_NoOpUpdateChangesNothing ==
    \A id \in RawIds, title \in RawValues, content \in RawValues :
      \A nowMs \in ClockReads(clock) : \A i \in Addressed(id) :
        LET out == putNote(notes, id, title, content, nowMs)
        IN  (/\ Provided(title) => cleanString(title) = notes[i].title
             /\ Provided(content) => cleanString(content) = notes[i].content)
                => /\ out.res.status = 200
                   /\ out.res.message = NoChangesMessage
                   /\ out.res.note = notes[i]
                   /\ out.res.updated_fields = <<>>
                   /\ out.notes = notes

\* C8 witness: an update has just been answered "no changes" for a note that
\* an earlier update had changed, while the clock has moved on since.
C8_Witness ==
    /\ res.message = NoChangesMessage
    /\ res.note.updated_at # res.note.created_at
    /\ toISOString(clock) # res.note.updated_at
    /\ \E i \in DOMAIN notes : notes[i] = res.note

\* C9: in every reachable state, an update of a stored note whose provided
\* fields are all non-blank and of which at least one differs from the stored
\* value is answered 200 with, in updated_fields, exactly the differing fields;
\* the stored note gets exactly those fields, trimmed, and the time of the
\* update as updated_at; its other field, id and created_at, and every other
\* note, stay as they were.
C9_UpdateChangesExactlyDiffering ==
    \A id \in RawIds, title \in RawValues, content \in RawValues :
      \A nowMs \in ClockReads(clock) : \A i \in Addressed(id) :
        LET out == putNote(notes, id, title, content, nowMs)
            new == out.notes[i]
        IN  (/\ Provided(title) => cleanString(title) # <<>>
             /\ Provided(content) => cleanString(content) # <<>>
             /\ Differs(title, notes[i].title) \/ Differs(content, notes[i].content))
                => /\ out.res.status = 200
                   /\ out.res.message = UpdatedMessage
                   /\ out.res.updated_fields =
                          (IF Differs(title, notes[i].title) THEN <<"title">> ELSE <<>>)
                          \o (IF Differs(content, notes[i].content)
                              THEN <<"content">> ELSE <<>>)
                   /\ out.res.note = new
                   /\ new.title = IF Differs(title, notes[i].title)
                                  THEN cleanString(title) ELSE notes[i].title
                   /\ new.content = IF Differs(content, notes[i].content)
                                    THEN cleanString(content) ELSE notes[i].content
                   /\ new.updated_at = toISOString(nowMs)
                   /\ new.id = notes[i].id
                   /\ new.created_at = notes[i].created_at
                   /\ DOMAIN out.notes = DOMAIN notes
                   /\ \A j \in DOMAIN notes \ {i} : out.notes[j] = notes[j]

\* C9 witness: with two notes stored, an update has just changed the title
\* alone of a note, at a time later than the note's creation.
C9_Witness ==
    /\ res.message = UpdatedMessage
    /\ res.updated_fields = <<"title">>
    /\ res.note.updated_at # res.note.created_at
    /\ Len(notes) = 2
    /\ \E i \in DOMAIN notes : notes[i] = res.note

\* The response is a listing: the answer of GET /notes or of a search
IsListing == res.status = 200 /\ res.count # -1

\* The stored notes a listing is to hold: all of them for GET /notes (no query
\* echoed), those whose title or content holds the echoed query otherwise
Listed ==
    IF res.query = <<>> THEN DOMAIN notes
    ELSE {i \in DOMAIN notes : \/ includes(toLowerCase(notes[i].title), res.query)
                               \/ includes(toLowerCase(notes[i].content), res.query)}

\* C10: the notes of a listing are exactly the stored notes it is to hold, each
\* once, with updated_at non-increasing from first to last.
C10_ListingsCompleteAndOrdered ==
    IsListing =>
        /\ res.count = Len(res.notes)
        /\ Len(res.notes) = Cardinality(Listed)
        /\ \A i \in DOMAIN notes :
              Cardinality({k \in DOMAIN res.notes : res.notes[k] = notes[i]})
                  = IF i \in Listed THEN 1 ELSE 0
        /\ \A k \in DOMAIN res.notes : \A l \in DOMAIN res.notes :
              k < l => DateParse(res.notes[k].updated_at)
                           >= DateParse(res.notes[l].updated_at)

\* C10 witness: a search has just returned both stored notes, the note stored
\* second first, because it was updated more than a second after the other.
C10_Witness ==
    /\ IsListing
    /\ res.query # <<>>
    /\ Len(res.notes) = 2
    /\ res.notes[1].id > res.notes[2].id
    /\ res.notes[1].updated_at.secs > res.notes[2].updated_at.secs

\* C11 as stated: the note a create stores, or a changing update rewrites, is
\* the first note of the listing of the notes as they are from then on, until
\* another note is created or changed.
C11_ModifiedNoteListedFirst ==
    [][\A i \in DOMAIN notes' :
          (i \notin DOMAIN notes \/ notes'[i] # notes[i])
              => getNotes(notes').notes[1] = notes'[i]]_vars

\* The position of a stored note in a listing
Position(list, note) == CHOOSE k \in DOMAIN list : list[k] = note

\* C11: no stored note carries a later updated_at than the note a create
\* stores or a changing update rewrites; the listing of the notes as they are
\* from then on has that note ahead of every note whose updated_at is earlier,
\* and behind the notes stored before it that carry the same updated_at, the
\* same millisecond.
C11_ModifiedNoteAheadOfEarlier ==
    [][\A i \in DOMAIN notes' :
          (i \notin DOMAIN notes \/ notes'[i] # notes[i])
              => \A j \in DOMAIN notes' \ {i} :
                    LET list == getNotes(notes').notes
                        mine == DateParse(notes'[i].updated_at)
                        other == DateParse(notes'[j].updated_at)
                    IN  /\ other <= mine
                        /\ other < mine
                              => Position(list, notes'[i]) < Position(list, notes'[j])
                        /\ other = mine /\ j < i
                              => Position(list, notes'[j]) < Position(list, notes'[i])]_vars

\* C11 witness: GET /notes has just listed the first note ahead of the second,
\* because an update changed it after the second note was created.
C11_Witness ==
    /\ IsListing
    /\ res.query = <<>>
    /\ Len(res.notes) = 2
    /\ res.notes[1] = notes[1]
    /\ res.notes[2] = notes[2]
    /\ DateParse(notes[1].updated_at) > DateParse(notes[2].updated_at)
    /\ DateParse(notes[2].updated_at) >= DateParse(notes[1].created_at)

\* C12: in every reachable state, an update addressed to an id no stored note
\* has is answered 404 "Note not found" whatever the title and the content
\* (absent, not a string, blank, valid), and leaves the notes as they were.
C12_UnknownIdNotFound ==
    \A id \in RawIds, title \in RawValues, content \in RawValues :
      \A nowMs \in ClockReads(clock) :
        LET out == putNote(notes, id, title, content, nowMs)
        IN  Addressed(id) = {}
                => /\ out.res = NotFoundResponse
                   /\ out.res.status = 404
                   /\ out.notes = notes

\* C12 witness: an update has just been answered 404 while two notes, one of
\* them changed by an earlier update, are stored.
C12_Witness ==
    /\ res = NotFoundResponse
    /\ Len(notes) = 2
    /\ \E i \in DOMAIN notes : notes[i].updated_at # notes[i].created_at

\* A field fails when the body holds no string for it, or a string that is
\* empty or all whitespace
Fails(value) ==
    \/ value.type # "string"
    \/ \A k \in DOMAIN value.chars : value.chars[k] \in Whitespace

\* The messages of exactly the failing fields, the title's first
FailingFields(title, content) ==
    (IF Fails(title) THEN <<TitleRequired>> ELSE <<>>)
    \o (IF Fails(content) THEN <<ContentRequired>> ELSE <<>>)

\* C13 as stated: in every reachable state, a create request with a failing
\* title or content is answered 400 "Validation failed" with the messages of
\* exactly the failing fields.
C13_FailingCreateAlwaysInvalid ==
    \A ip \in Ips, title \in CreateValues, content \in CreateValues :
      \A now \in ClockReads(clock) :
        LET out == postNotesRoute(rateLimitMap, notes, noteIdCounter, ip, title,
                                  content, now, now, now)
        IN  Fails(title) \/ Fails(content)
                => out.res = ErrorResponse(400, "Validation failed", "",
                                           FailingFields(title, content))

\* C13: in every reachable state, a create request with a failing title or
\* content that the rate limiter lets through is answered 400 "Validation
\* failed" with the messages of exactly the failing fields; one the rate
\* limiter stops is answered 429; neither stores a note.
C13_FailingCreateInvalidPastLimiter ==
    \A ip \in Ips, title \in CreateValues, content \in CreateValues :
      \A now \in ClockReads(clock) :
        LET out == postNotesRoute(rateLimitMap, notes, noteIdCounter, ip, title,
                                  content, now, now, now)
        IN  Fails(title) \/ Fails(content)
                => /\ out.next => out.res = ErrorResponse(400, "Validation failed", "",
                                                          FailingFields(title, content))
                   /\ ~out.next => out.res = RateLimitedResponse
                   /\ out.notes = notes
                   /\ out.noteIdCounter = noteIdCounter

\* C13 witness: a create with a blank title and a blank content has just been
\* answered 400 with both messages, after the limiter let it through as the
\* third request or later of its client, while a note is stored.
C13_Witness ==
    /\ res = ErrorResponse(400, "Validation failed", "",
                           <<TitleRequired, ContentRequired>>)
    /\ notes # <<>>
    /\ \E c \in ClientIds : Len(passed[c]) >= 3 /\ passed[c][Len(passed[c])] = clock
    /\ limited = {}

\* The q parameter is present and blank: a string that is empty or all whitespace
BlankQuery(q) ==
    q.type = "string" /\ \A k \in DOMAIN q.chars : q.chars[k] \in Whitespace

\* C14: in every reachable state, a search without a q parameter is answered
\* 400 "Search query required", a search whose q parameter is present and
\* blank, the empty string included, is answered 400 "Invalid search query",
\* and a search with a non-blank query is answered 200.
C14_BadQueryClassifiedByPresence ==
    \A q \in RawQueries :
        LET out == searchNotes(notes, q)
        IN  /\ q = Undefined
                  => out.status = 400 /\ out.error = "Search query required"
            /\ BlankQuery(q)
                  => out.status = 400 /\ out.error = "Invalid search query"
            /\ q # Undefined /\ ~BlankQuery(q) => out.status = 200

\* The text holds the query somewhere, letter case ignored on both sides
HoldsIgnoringCase(text, query) ==
    \E k \in 0..(Len(text) - Len(query)) :
        \A l \in 1..Len(query) : lowerChar(text[k + l]) = lowerChar(query[l])

\* C15: in every reachable state, a search with a non-blank query is answered
\* 200 with, as query, the trimmed query in lower case and, as notes, exactly
\* the stored notes whose title or content holds the trimmed query, letter
\* case ignored; two queries that are equal once trimmed and lower-cased are
\* answered with the same notes.
C15_SearchReturnsExactlyMatches ==
    \A q \in RawQueries :
        q # Undefined /\ ~BlankQuery(q) =>
            LET out == searchNotes(notes, q)
                wanted == trim(q.chars)
            IN  /\ out.status = 200
                /\ Len(out.query) = Len(wanted)
                /\ \A l \in DOMAIN wanted : out.query[l] = lowerChar(wanted[l])
                /\ out.count = Len(out.notes)
                /\ \A i \in DOMAIN notes :
                      (\E k \in DOMAIN out.notes : out.notes[k] = notes[i])
                          <=> \/ HoldsIgnoringCase(notes[i].title, wanted)
                              \/ HoldsIgnoringCase(notes[i].content, wanted)
                /\ \A k \in DOMAIN out.notes : \E i \in DOMAIN notes : notes[i] = out.notes[k]
                /\ \A other \in RawQueries :
                      (/\ other # Undefined /\ ~BlankQuery(other)
                       /\ toLowerCase(trim(other.chars)) = toLowerCase(wanted))
                          => searchNotes(notes, other).notes = out.notes

\* C15 witness: with two notes stored, a search for "b" has just returned one
\* note alone, found by the "B" of its content, its title holding no "b".
C15_Witness ==
    /\ res.status = 200
    /\ res.query = <<"b">>
    /\ Len(notes) = 2
    /\ Len(res.notes) = 1
    /\ ~HoldsIgnoringCase(res.notes[1].title, <<"b">>)
    /\ includes(res.notes[1].content, <<"B">>)

\* A request that is not a create: a list, an update or a search, of those
\* made next to the client driving the limiter to its threshold
NotCreate ==
    \/ GetAllNotes
    \/ \E id \in LoadIds, title \in LoadTitles : UpdateNote(id, title, Undefined)
    \/ \E q \in LoadQueries : SearchNotes(q)

\* C16: a list, an update or a search is never answered 429, however many
\* requests the client has sent, and leaves the rate limiter's map as it was,
\* so that every create is let through or stopped after it as before it.
C16_OnlyCreateRateLimited ==
    [][NotCreate
          => /\ res'.status # 429
             /\ rateLimitMap' = rateLimitMap
             /\ \A ip \in Ips : \A now \in ClockReads(clock') :
                   rateLimiter(rateLimitMap', clientId(ip), now).next
                       = rateLimiter(rateLimitMap, clientId(ip), now).next]_vars

\* C16 witness: GET /notes has just been answered with the notes for a client
\* that has five requests in the window and was answered 429 for a create.
C16_Witness ==
    /\ IsListing
    /\ res.query = <<>>
    /\ res.notes # <<>>
    /\ clientId(HandlerIp) \in limited
    /\ Cardinality(InWindow(clientId(HandlerIp), clock)) = MAX_NOTES_PER_MINUTE

\* C17: in every reachable state, a create request of a client leaves the
\* rate limiter's entry of every other client as it was, none created and
\* none changed, and is let through exactly when fewer than
\* MAX_NOTES_PER_MINUTE of the client's own requests that passed are in the
\* window, whatever the other clients have sent.
C17_ClientsLimitedIndependently ==
    \A ip \in Ips : \A now \in ClockReads(clock) :
        LET out == rateLimiter(rateLimitMap, clientId(ip), now)
        IN  /\ \A other \in ClientIds \ {clientId(ip)} :
                  IF other \in DOMAIN rateLimitMap
                  THEN /\ other \in DOMAIN out.map
                       /\ out.map[other] = rateLimitMap[other]
                  ELSE other \notin DOMAIN out.map
            /\ out.next <=>
                  Cardinality(InWindow(clientId(ip), now)) < MAX_NOTES_PER_MINUTE

\* C17 witness: one client has five requests in the window and was answered
\* 429, and a request of another client has just passed the limiter.
C17_Witness ==
    \E a \in limited : \E b \in ClientIds \ limited :
        /\ Cardinality(InWindow(a, clock)) = MAX_NOTES_PER_MINUTE
        /\ passed[b] # <<>>
        /\ passed[b][Len(passed[b])] = clock
        /\ res.status \in {201, 400}

\* C18: in every reachable state, a check at time now keeps exactly the
\* recorded timestamps t with t >= now - RATE_LIMIT_WINDOW, and stops the
\* request when MAX_NOTES_PER_MINUTE of them are kept, a timestamp recorded
\* exactly RATE_LIMIT_WINDOW ms before the check included.
C18_WindowKeepsBoundary ==
    \A ip \in Ips : \A now \in ClockReads(clock) :
        LET c == clientId(ip)
            recorded == IF c \in DOMAIN rateLimitMap THEN rateLimitMap[c] ELSE <<>>
            counted == SelectSeq(recorded, LAMBDA t : t >= now - RATE_LIMIT_WINDOW)
        IN  /\ validTimestamps(recorded, now) = counted
            /\ Len(counted) >= MAX_NOTES_PER_MINUTE
                  => ~rateLimiter(rateLimitMap, c, now).next

\* A body field is provided and blank: the body has the key, with a value
\* that is not a string or is blank after trimming
ProvidedBlank(value) == Provided(value) /\ Fails(value)

\* C19: in every reachable state, an update of a stored note with a provided
\* blank field is answered 400 with the message of the first such field
\* alone, the title's before the content's, and leaves the notes as they
\* were, whatever the other field holds, a valid differing title included;
\* and every update leaves the note either as it was or with every differing
\* field of the request applied.
C19_UpdateAllOrNothing ==
    \A id \in RawIds, title \in RawValues, content \in RawValues :
      \A nowMs \in ClockReads(clock) : \A i \in Addressed(id) :
        LET out == putNote(notes, id, title, content, nowMs)
        IN  /\ ProvidedBlank(title)
                  => /\ out.res = ErrorResponse(400, "Validation failed", "", <<TitleEmpty>>)
                     /\ out.notes = notes
            /\ ~ProvidedBlank(title) /\ ProvidedBlank(content)
                  => /\ out.res = ErrorResponse(400, "Validation failed", "",
                                                <<ContentEmpty>>)
                     /\ out.notes = notes
            /\ out.res.status # 200 => out.notes = notes
            /\ \/ out.notes = notes
               \/ /\ Differs(title, notes[i].title)
                         => out.notes[i].title = cleanString(title)
                  /\ Differs(content, notes[i].content)
                         => out.notes[i].content = cleanString(content)
                  /\ out.notes[i].updated_at = toISOString(nowMs)

\* C19 witness: an update has just been rejected for its blank content alone,
\* so with a title that was absent or valid, while every stored note is as
\* its create left it and the clock has moved on since.
C19_Witness ==
    /\ res = ErrorResponse(400, "Validation failed", "", <<ContentEmpty>>)
    /\ Len(notes) = 2
    /\ \A i \in DOMAIN notes :
          /\ DateParse(notes[i].updated_at) <= DateParse(notes[i].created_at) + MaxJitter
          /\ DateParse(notes[i].updated_at) < clock

\* No two stored notes, and no two creates answered 201, share an id.
C20_DistinctIds ==
    /\ \A i \in DOMAIN notes : \A j \in DOMAIN notes :
          i # j => notes[i].id # notes[j].id
    /\ \A r \in Slots : \A other \in Slots \ {r} :
          inflight[r].res.status = 201 /\ inflight[other].res.status = 201
              => inflight[r].res.note.id # inflight[other].res.note.id

\* No window holds more than MAX_NOTES_PER_MINUTE requests of a client that
\* passed the limiter, and of two creates of a client that both arrived with
\* MAX_NOTES_PER_MINUTE - 1 timestamps counted, at most one passed it.
C20_NoUndercount ==
    /\ \A c \in ClientIds :
          Cardinality(InWindow(c, clock)) <= MAX_NOTES_PER_MINUTE
    /\ \A r \in Slots : \A other \in Slots \ {r} :
          (/\ inflight[r].phase = "answered" /\ inflight[other].phase = "answered"
           /\ inflight[r].request.op = "create" /\ inflight[other].request.op = "create"
           /\ inflight[r].request.ip = inflight[other].request.ip
           /\ inflight[r].counted = MAX_NOTES_PER_MINUTE - 1
           /\ inflight[other].counted = MAX_NOTES_PER_MINUTE - 1)
              => inflight[r].res.status = 429 \/ inflight[other].res.status = 429

\* A step keeps every stored note; a note it changes is the note of an update
\* answered with it, and of that note the fields not in updated_fields are
\* as the step found them, so no change made by another request is undone.
C20_NoLostUpdate ==
    \A i \in DOMAIN notes :
        /\ i \in DOMAIN notes'
        /\ \/ notes'[i] = notes[i]
           \/ /\ res'.message = UpdatedMessage
              /\ res'.note = notes'[i]
              /\ \A field \in {"title", "content"} :
                    (\A k \in DOMAIN res'.updated_fields : res'.updated_fields[k] # field)
                        => notes'[i][field] = notes[i][field]
              /\ notes'[i].id = notes[i].id
              /\ notes'[i].created_at = notes[i].created_at

\* C20: with requests arriving while others are in flight and their callbacks
\* run in any order, no two creates get the same id, no update undoes the
\* change of another request, and no client gets more requests through the
\* limiter than the threshold, two creates that both arrived when one slot
\* was left included.
C20_RequestsTakeEffectWhole ==
    /\ []C20_DistinctIds
    /\ []C20_NoUndercount
    /\ [][C20_NoLostUpdate]_vars

\* C20 witness: two creates of one client were in flight together, both having
\* arrived with four timestamps counted; one passed the limiter and got id 2,
\* the other was answered 429; and the first note holds the title of one
\* update and the content of another.
C20_Witness ==
    /\ \A r \in Slots :
          /\ inflight[r].phase = "answered"
          /\ inflight[r].request.op = "create"
          /\ inflight[r].counted = MAX_NOTES_PER_MINUTE - 1
    /\ \E r \in Slots : inflight[r].res.status = 429
    /\ \E r \in Slots : inflight[r].res.status = 201 /\ inflight[r].res.note.id = 2
    /\ Len(notes) = 2
    /\ notes[1].title = <<"a", "B">>
    /\ notes[1].content = <<"a", "B">>

\* A step keeps every stored note at its position, with its id and its
\* created_at; a note it changes is the note of the changing update it
\* answers, addressed by that id.
C21_StepKeepsIdentity ==
    \A i \in DOMAIN notes :
        /\ i \in DOMAIN notes'
        /\ notes'[i].id = notes[i].id
        /\ notes'[i].created_at = notes[i].created_at
        /\ notes'[i] # notes[i]
              => /\ res'.status = 200
                 /\ res'.message = UpdatedMessage
                 /\ res'.updated_fields # <<>>
                 /\ res'.note = notes'[i]
                 /\ \A j \in DOMAIN notes \ {i} : notes'[j] = notes[j]

\* C21: every step keeps every stored note at its position with its id and
\* created_at, changing a note only by the changing update it answers, and in
\* every reachable state exactly one stored note carries each stored id.
C21_NotesPermanent ==
    /\ [][C21_StepKeepsIdentity]_vars
    /\ [](\A i \in DOMAIN notes :
             Cardinality({j \in DOMAIN notes : notes[j].id = notes[i].id}) = 1)

\* C21 witness: two notes are stored under the ids 1 and 2, each changed in
\* title and in content by updates made a window after its creation.
C21_Witness ==
    /\ Len(notes) = 2
    /\ \A i \in DOMAIN notes :
          /\ notes[i].id = i
          /\ notes[i].title = <<"a", "B">>
          /\ notes[i].content = <<"a", "B">>
          /\ DateParse(notes[i].updated_at)
                 >= DateParse(notes[i].created_at) + RATE_LIMIT_WINDOW - MaxJitter

\* The rate limiter's entry of a client, empty when the map has none
Entry(map, c) == IF c \in DOMAIN map THEN map[c] ELSE <<>>

\* Every stored entry holds at most MAX_NOTES_PER_MINUTE timestamps, in
\* non-decreasing order.
C22_EntriesBoundedAndOrdered ==
    \A c \in DOMAIN rateLimitMap :
        /\ Len(rateLimitMap[c]) <= MAX_NOTES_PER_MINUTE
        /\ \A k \in DOMAIN rateLimitMap[c] : \A l \in DOMAIN rateLimitMap[c] :
              k < l => rateLimitMap[c][k] <= rateLimitMap[c][l]

\* A step that changes a client's entry replaces it by the timestamps of it
\* less than RATE_LIMIT_WINDOW ms old, fewer than MAX_NOTES_PER_MINUTE of
\* them, followed by the time of the check; a step answered 429 stores
\* nothing.
C22_StepPrunesAndAppends ==
    /\ \A c \in DOMAIN rateLimitMap' :
          Entry(rateLimitMap', c) # Entry(rateLimitMap, c)
              => LET stored == rateLimitMap'[c]
                     now == stored[Len(stored)]
                     kept == SelectSeq(Entry(rateLimitMap, c),
                                       LAMBDA t : now - t < RATE_LIMIT_WINDOW)
                 IN  /\ stored = Append(kept, now)
                     /\ Len(kept) < MAX_NOTES_PER_MINUTE
                     /\ now \in ClockReads(clock)
                     /\ res'.status # 429
    /\ res'.status = 429
          => \A c \in ClientIds : Entry(rateLimitMap', c) = Entry(rateLimitMap, c)

\* C22: in every reachable state each client's entry holds at most
\* MAX_NOTES_PER_MINUTE timestamps in non-decreasing order; a timestamp is
\* appended only to a pruned list of fewer than MAX_NOTES_PER_MINUTE, which
\* replaces the old entry, and a request the limiter rejects stores nothing.
C22_EntriesNeverOutgrowLimit ==
    /\ []C22_EntriesBoundedAndOrdered
    /\ [][C22_StepPrunesAndAppends]_vars

\* C22 witness: a client filled its entry with five timestamps, not all the
\* same, was answered 429, and a window after the first of them its sixth
\* request replaced the entry by the one timestamp still in the window and
\* the timestamp of that request.
C22_Witness ==
    \E c \in limited :
        /\ Len(passed[c]) = MAX_NOTES_PER_MINUTE + 1
        /\ passed[c][1] < passed[c][MAX_NOTES_PER_MINUTE]
        /\ passed[c][MAX_NOTES_PER_MINUTE + 1] - passed[c][1] >= RATE_LIMIT_WINDOW
        /\ rateLimitMap[c] = <<passed[c][MAX_NOTES_PER_MINUTE],
                               passed[c][MAX_NOTES_PER_MINUTE + 1]>>

====
